---- MODULE Spec2Model ----
(***************************************************************************)
(* SmartTransit retrieval engine: the ingestion script                     *)
(* (src/backend/rag_ingest.py) that chunks, embeds and writes the index    *)
(* bundle, and the retrieval service (src/rag_api.py) that loads the       *)
(* bundle and answers /chat and /rag/sources requests.                     *)
(*                                                                         *)
(* Strings are sequences of one-character strings, so that split, strip,   *)
(* join and number formatting are computed and not assumed.                *)
(* Real numbers are scaled integers: a normalized vector component c is    *)
(* held as c * Scale, an inner product of two normalized vectors as        *)
(* score * Scale * Scale.                                                  *)
(***************************************************************************)
EXTENDS Integers, Sequences, FiniteSets, TLC

(***************************************************************************)
(* Bounds of the model                                                     *)
(***************************************************************************)
\* ingest() runs explored
MaxRuns == 2
\* longest text handed to chunk_text in the chunker specification
MaxTextLen == 4
\* largest chunk size tried in the chunker specification
MaxChunkWords == 2
\* rows of the large alerts file (more rows than the top_k cap of 20)
BigRows == 21
\* most tokens of a text handed to chunk_text in the step-wise chunker specification
MaxTokens == 5
\* largest chunk size tried in the step-wise chunker specification
MaxSize == 3
\* chat and sources requests in flight at once
MaxRequests == 2

(***************************************************************************)
(* Program constants                                                       *)
(***************************************************************************)
CHUNK_WORDS == 150
CHUNK_OVERLAP == 25
DEFAULT_TOP_K == 5
\* chat(): top_k = max(1, min(20, req.top_k))
TopKMin == 1
TopKMax == 20
\* chat(): "\n\n".join(snippets[:5])
SnippetCap == 5

(***************************************************************************)
(* Strings                                                                 *)
(***************************************************************************)
SP == " "
NL == "\n"

Min(a, b) == IF a < b THEN a ELSE b
Max(a, b) == IF a > b THEN a ELSE b

\* str(i) for i >= 0, in decimal
Digit(d) == <<"0", "1", "2", "3", "4", "5", "6", "7", "8", "9">>[d + 1]

RECURSIVE IntToStr(_)
IntToStr(n) == IF n < 10 THEN <<Digit(n)>> ELSE IntToStr(n \div 10) \o <<Digit(n % 10)>>

\* str.strip() left out: the text as it came
Strip_noop(s) == s

\* str.strip(): leading and trailing whitespace removed
Strip(s) ==
    LET ink == {i \in 1..Len(s) : s[i] # SP}
    IN  IF ink = {} THEN <<>>
        ELSE LET lo == CHOOSE i \in ink : \A j \in ink : i <= j
                 hi == CHOOSE i \in ink : \A j \in ink : i >= j
             IN  SubSeq(s, lo, hi)

\* the members of the set of integers S that lie in lo..hi, in increasing order
RECURSIVE Ascending(_, _, _)
Ascending(S, lo, hi) ==
    IF lo > hi THEN <<>>
    ELSE IF lo = hi THEN (IF lo \in S THEN <<lo>> ELSE <<>>)
    ELSE LET mid == (lo + hi) \div 2
         IN  Ascending(S, lo, mid) \o Ascending(S, mid + 1, hi)

\* str.split(): the maximal runs of non-whitespace characters, in order
Split(s) ==
    LET starts == {i \in 1..Len(s) : s[i] # SP /\ (i = 1 \/ s[i-1] = SP)}
        b == Ascending(starts, 1, Len(s))
        EndOf(i) == CHOOSE e \in i..Len(s) : e = Len(s) \/ s[e+1] = SP
    IN  [k \in 1..Len(b) |-> SubSeq(s, b[k], EndOf(b[k]))]

\* sep.join(parts[lo..hi])
RECURSIVE JoinRange(_, _, _, _)
JoinRange(sep, parts, lo, hi) ==
    IF lo > hi THEN <<>>
    ELSE IF lo = hi THEN parts[lo]
    ELSE LET mid == (lo + hi) \div 2
         IN  JoinRange(sep, parts, lo, mid) \o sep \o JoinRange(sep, parts, mid + 1, hi)

\* sep.join(parts)
Join(sep, parts) == JoinRange(sep, parts, 1, Len(parts))

(***************************************************************************)
(* Chunker                                                                 *)
(***************************************************************************)
\* a slice bound as Python resolves it against a list of length n: a negative
\* bound counts from the end, and every bound is clipped to 0..n
SliceBound(x, n) == IF x < 0 THEN Max(n + x, 0) ELSE Min(x, n)

\* words[i:i+n]
Slice(words, i, n) ==
    SubSeq(words, SliceBound(i, Len(words)) + 1, SliceBound(i + n, Len(words)))

\* line 101 with the overlap left out: windows laid end to end
Stride_ignores_overlap(chunk_words, overlap) == chunk_words

\* line 101: the step of the window start
Stride(chunk_words, overlap) == chunk_words - overlap

\* the while loop of chunk_text, from window start i, for a stride >= 1
RECURSIVE ChunkLoop(_, _, _, _, _)
ChunkLoop(words, i, chunk_words, overlap, chunks) ==
    IF i < Len(words)
    THEN ChunkLoop(words, i + Stride(chunk_words, overlap), chunk_words, overlap,
                   Append(chunks, Join(<<SP>>, Slice(words, i, chunk_words))))
    ELSE chunks

\* chunk_text returning the re-joined words for a short text too
chunk_text_rejoin(text, chunk_words, overlap) ==
    LET words == Split(text)
    IN  IF Len(words) <= chunk_words THEN <<Join(<<SP>>, words)>>
        ELSE ChunkLoop(words, 0, chunk_words, overlap, <<>>)

\* lines 92-102, for overlap < chunk_words
chunk_text(text, chunk_words, overlap) ==
    LET words == Split(text)
    IN  IF Len(words) <= chunk_words THEN <<text>>
        ELSE ChunkLoop(words, 0, chunk_words, overlap, <<>>)

(***************************************************************************)
(* Embedder and normalization                                              *)
(***************************************************************************)
\* The raw (un-normalized) vectors the embedding model can return.  Two of
\* them are parallel, so distinct raw vectors can normalize to equal ones,
\* and one is the zero vector.
RawVecs == << <<0, 0>>, <<3, 0>>, <<0, 2>>, <<3, 4>>, <<6, 8>> >>

TextHash(s) ==
    Cardinality({i \in 1..Len(s) : s[i] = "a"}) + 2 * Cardinality({i \in 1..Len(s) : s[i] = "b"})

\* SentenceTransformer.encode on one text: a fixed function of the text
EncodeOne(text) == RawVecs[(TextHash(text) % Len(RawVecs)) + 1]

\* model.encode(texts, convert_to_numpy=True): one row per text, same order
Encode(texts) == [i \in 1..Len(texts) |-> EncodeOne(texts[i])]

Isqrt(n) == CHOOSE r \in 0..n : r * r <= n /\ (r + 1) * (r + 1) > n

\* np.linalg.norm of one row
L2Norm(v) == Isqrt(v[1] * v[1] + v[2] * v[2])

\* fixed-point unit, the real number 1.0: the norm of the raw vector (3, 4),
\* so that every normalized component of RawVecs is a whole number of units
Scale == L2Norm(<<3, 4>>)

\* the rows divided by their 1-norm (the sum of the absolute components)
NormalizeRows_l1(rows) ==
    [i \in 1..Len(rows) |->
        LET a == (IF rows[i][1] < 0 THEN 0 - rows[i][1] ELSE rows[i][1])
                 + (IF rows[i][2] < 0 THEN 0 - rows[i][2] ELSE rows[i][2])
            n == IF a = 0 THEN 1 ELSE a
        IN  [c \in 1..2 |-> (rows[i][c] * Scale) \div n]]

\* norms[norms == 0] = 1; rows / norms
NormalizeRows(rows) ==
    [i \in 1..Len(rows) |->
        LET n == IF L2Norm(rows[i]) = 0 THEN 1 ELSE L2Norm(rows[i])
        IN  [c \in 1..2 |-> (rows[i][c] * Scale) \div n]]

embed_query(text) == NormalizeRows(Encode(<<text>>))[1]

InnerProduct(u, v) == u[1] * v[1] + u[2] * v[2]

(***************************************************************************)
(* FAISS IndexFlatIP.search(q, k)                                          *)
(*                                                                         *)
(* An exact scan: the k best inner products, best first, labels 0-based.   *)
(* When the index holds fewer than k vectors the remaining labels are -1.  *)
(* A candidate replaces the current k-th best only when strictly better,   *)
(* so among equal scores at the cut the earlier positions are kept; the    *)
(* order in which equal scores are reported is left to the library build   *)
(* (its result handler), so it is an input of the search: "asc" or "desc"  *)
(* position.                                                               *)
(***************************************************************************)
TieOrders == {"asc", "desc"}

\* the score FAISS reports beside a label of -1
NoScore == 0 - (Scale * Scale + 1)

\* the positions 1..n of the index, best inner product first, equal scores by
\* ascending position
RECURSIVE ScanOrder(_, _, _)
ScanOrder(vecs, q, n) ==
    IF n = 0 THEN <<>>
    ELSE LET sofar == ScanOrder(vecs, q, n - 1)
             mine == InnerProduct(vecs[n], q)
             ahead == Cardinality({p \in 1..Len(sofar) :
                                      InnerProduct(vecs[sofar[p]], q) >= mine})
         IN  SubSeq(sofar, 1, ahead) \o <<n>> \o SubSeq(sofar, ahead + 1, Len(sofar))

\* a search that reports the first k positions in insertion order, unranked
FaissSearch_unranked(vecs, q, k, tie) ==
    LET m == Min(k, Len(vecs))
    IN  [D |-> [p \in 1..k |-> IF p <= m THEN InnerProduct(vecs[p], q) ELSE NoScore],
         I |-> [p \in 1..k |-> IF p <= m THEN p - 1 ELSE 0 - 1]]

\* a search that ranks the lowest inner product first, as a distance is ranked
FaissSearch_worst_first(vecs, q, k, tie) ==
    LET order == ScanOrder(vecs, q, Len(vecs))
        m == Min(k, Len(order))
        back(p) == order[Len(order) + 1 - p]
    IN  [D |-> [p \in 1..k |-> IF p <= m THEN InnerProduct(vecs[back(p)], q) ELSE NoScore],
         I |-> [p \in 1..k |-> IF p <= m THEN back(p) - 1 ELSE 0 - 1]]

\* _index.search(qvec, top_k) of line 83
FaissSearch(vecs, q, k, tie) ==
    LET order == ScanOrder(vecs, q, Len(vecs))
        m == Min(k, Len(order))
        sc(p) == InnerProduct(vecs[order[p]], q)
        \* the run of equal scores around rank p, within the m kept
        RunLo(p) == CHOOSE a \in 1..p : sc(a) = sc(p) /\ (a = 1 \/ sc(a - 1) # sc(p))
        RunHi(p) == CHOOSE b \in p..m : sc(b) = sc(p) /\ (b = m \/ sc(b + 1) # sc(p))
        At(p) == IF tie = "asc" THEN p ELSE RunLo(p) + RunHi(p) - p
    IN  [D |-> [p \in 1..k |-> IF p <= m THEN sc(At(p)) ELSE NoScore],
         I |-> [p \in 1..k |-> IF p <= m THEN order[At(p)] - 1 ELSE 0 - 1]]

(***************************************************************************)
(* State                                                                   *)
(***************************************************************************)
VARIABLES
    \* backend/rag_store/ on disk
    ragDirExists,   \* OUT_DIR.mkdir(exist_ok=True) has run
    indexFile,      \* faiss_index.bin
    metaFile,       \* index_meta.json
    manifestFile,   \* sources.json
    \* the ingestion process
    ipc,            \* where ingest() stands
    runId,          \* number of ingest() runs started so far
    dataDir,        \* what backend/data/ held when the latest run read it
    docs,           \* ingest(): docs
    expanded,       \* ingest(): expanded
    embeddings,     \* ingest(): embeddings, after normalization
    \* the retrieval service process
    svc,            \* where the module-level load stands
    INDEX_META,     \* rag_api.INDEX_META
    MANIFEST,       \* rag_api.MANIFEST
    faiss_index,    \* rag_api._index
    OPENAI_API_KEY, \* rag_api.OPENAI_API_KEY is set (not None)
    resp,           \* what the step just taken returned to its caller, if anything
    reqs,           \* the requests in flight, each with the locals of its handler
    \* the chunker called on its own
    cpc,            \* where the call stands
    ctext,          \* chunk_text: text
    cwords,         \* chunk_text: chunk_words
    coverlap,       \* chunk_text: overlap
    c_i,             \* chunk_text: i
    cchunks,        \* chunk_text: chunks
    cresult         \* what the call returned

diskVars == <<ragDirExists, indexFile, metaFile, manifestFile>>
ingestVars == <<ipc, runId, dataDir, docs, expanded, embeddings>>
svcVars == <<svc, INDEX_META, MANIFEST, faiss_index, OPENAI_API_KEY>>
chunkVars == <<cpc, ctext, cwords, coverlap, c_i, cchunks, cresult>>
vars == <<diskVars, ingestVars, svcVars, resp, reqs, chunkVars>>

\* A file that does not exist.  The run field of a file (and of what the
\* service loaded from it) records which ingest() run wrote it; the program
\* keeps no such field, it is here so that properties can name the run.
NoIndexFile == [exists |-> FALSE, run |-> 0, vecs |-> <<>>]
NoMetaFile == [exists |-> FALSE, run |-> 0, entries |-> <<>>]
NoManifestFile == [exists |-> FALSE, run |-> 0, num_docs |-> 0, num_chunks |-> 0]
NoResp == [kind |-> "none"]
\* a request slot that holds no request
FreeSlot ==
    [pc |-> "free", raw |-> <<>>, top_k |-> 0, query |-> <<>>, k |-> 0, qvec |-> <<>>,
     D |-> <<>>, I |-> <<>>, tie |-> "asc", retrieved |-> <<>>, response |-> NoResp]
NoRequests == [r \in 1..MaxRequests |-> FreeSlot]

(***************************************************************************)
(* backend/data/: what the source files can hold when ingest() runs.       *)
(* A row is held as the text its row adapter makes of it.                  *)
(***************************************************************************)
ALERTS_F == "alerts_updated.csv"
STOPS_F == "bus_stops.csv.csv"
EXTRA_FILES == <<"predictions_updated.csv", "merged_cleaned.csv", "bangalore_weather_clean.csv">>

\* A row: cells is the text its row adapter makes of it, adapter says how
\* the adapter of its source ends on it (row_to_doc_from_alerts and
\* row_to_doc_from_stops; for an extra file that adapter is
\* generic_row_to_doc itself) and generic how generic_row_to_doc ends on it.
Row(cells) == [cells |-> cells, adapter |-> "ok", generic |-> "ok"]
\* a row its source's adapter raises on, generic_row_to_doc does not
OddRow(cells) == [cells |-> cells, adapter |-> "raises", generic |-> "ok"]
\* a row generic_row_to_doc raises on
BadRow(cells) == [cells |-> cells, adapter |-> "raises", generic |-> "raises"]

\* a file that is absent or unreadable: safe_read_csv returns None
None == [readable |-> FALSE, rows |-> <<>>]
CsvRows(rows) == [readable |-> TRUE, rows |-> rows]
Csv(texts) == CsvRows([j \in 1..Len(texts) |-> Row(texts[j])])

\* row j of the large alerts file: j in binary, written with a for 0, b for 1
RECURSIVE BigText(_)
BigText(j) ==
    IF j < 2 THEN <<IF j = 1 THEN "b" ELSE "a">>
    ELSE BigText(j \div 2) \o <<IF j % 2 = 1 THEN "b" ELSE "a">>

\* a text of n one-letter words
LongText(n) == [i \in 1..(2 * n - 1) |-> IF i % 2 = 1 THEN "a" ELSE SP]

Dir(alerts, stops, e1, e2, e3) ==
    [alerts |-> alerts, stops |-> stops, extras |-> <<e1, e2, e3>>]

\* backend/data/ with none of the five files
NoData == Dir(None, None, None, None, None)

DataDirs ==
        { NoData,
          Dir(Csv(<< <<"a">> >>), None, None, None, None),
          Dir(Csv(<< <<"a", SP, "b">>, <<"b">> >>),
              Csv(<< <<"a", SP, SP, "b">>, <<"a", "a">> >>),
              None, Csv(<< <<"b">> >>), None),
          Dir(None, Csv(<< LongText(CHUNK_WORDS + CHUNK_OVERLAP + 1) >>),
              None, None, Csv(<< <<"b", "a">> >>)),
          Dir(Csv([j \in 1..BigRows |-> BigText(j)]), None, None, None, None),
          \* the alerts adapter raises on the second row
          Dir(CsvRows(<< Row(<<"a">>), OddRow(<<"b">>), Row(<<"a", "b">>) >>),
              None, Csv(<< <<"b">> >>), None, None),
          \* generic_row_to_doc raises on a row of the second extra file
          Dir(Csv(<< <<"a">>, <<"b">> >>), None, None,
              CsvRows(<< Row(<<"a">>), BadRow(<<"b">>) >>), None) }

(***************************************************************************)
(* ingest()                                                                *)
(***************************************************************************)
\* generic_row_to_doc: the text names the row and lists its cells
generic_row_to_doc(idx, row, source_name) ==
    [source |-> source_name,
     text |-> <<"R", "O", "W", SP>> \o IntToStr(idx) \o <<SP>> \o row.cells,
     meta |-> [source_row |-> idx]]

\* row_to_doc_from_alerts and row_to_doc_from_stops: text.strip()
row_to_doc(idx, row, source_name) ==
    [source |-> source_name, text |-> Strip(row.cells), meta |-> [source_row |-> idx]]

\* the try/except of lines 112-117, 126-130 and 141-144 on one row: does an
\* exception leave it?  The handler calls generic_row_to_doc, for an extra
\* file on the very row it has just raised on.
RowRaises(row, specific) ==
    IF specific THEN row.adapter = "raises" /\ row.generic = "raises"
    ELSE row.generic = "raises"

\* safe_read_csv, then one document per row (row index idx is 0-based)
DocsOf(csv, source, specific) ==
    IF ~csv.readable THEN <<>>
    ELSE [j \in 1..Len(csv.rows) |->
            IF specific /\ csv.rows[j].adapter = "ok"
            THEN row_to_doc(j - 1, csv.rows[j], source)
            ELSE generic_row_to_doc(j - 1, csv.rows[j], source)]

\* lines 105-144: an exception leaves the loops over the rows
ReadRaises(dir) ==
    \/ \E j \in 1..Len(dir.alerts.rows) : RowRaises(dir.alerts.rows[j], TRUE)
    \/ \E j \in 1..Len(dir.stops.rows) : RowRaises(dir.stops.rows[j], TRUE)
    \/ \E e \in 1..Len(EXTRA_FILES) :
          \E j \in 1..Len(dir.extras[e].rows) : RowRaises(dir.extras[e].rows[j], FALSE)

\* lines 105-144, with the stops read before the alerts
ReadDocs_stops_first(dir) ==
    DocsOf(dir.stops, STOPS_F, TRUE) \o DocsOf(dir.alerts, ALERTS_F, TRUE)
    \o DocsOf(dir.extras[1], EXTRA_FILES[1], FALSE)
    \o DocsOf(dir.extras[2], EXTRA_FILES[2], FALSE)
    \o DocsOf(dir.extras[3], EXTRA_FILES[3], FALSE)

\* lines 105-144: alerts, then stops, then the extra files in listed order
ReadDocs(dir) ==
    DocsOf(dir.alerts, ALERTS_F, TRUE) \o DocsOf(dir.stops, STOPS_F, TRUE)
    \o DocsOf(dir.extras[1], EXTRA_FILES[1], FALSE)
    \o DocsOf(dir.extras[2], EXTRA_FILES[2], FALSE)
    \o DocsOf(dir.extras[3], EXTRA_FILES[3], FALSE)

\* lines 149-159: the chunks of document i (0-based), in order
ChunksOfDoc(d, i) ==
    LET chunks == chunk_text(d.text, CHUNK_WORDS, CHUNK_OVERLAP)
    IN  [ci \in 1..Len(chunks) |->
            [source |-> d.source, text |-> chunks[ci], meta |-> d.meta,
             chunk_id |-> ci - 1, orig_idx |-> i]]

RECURSIVE ExpandFrom(_, _)
ExpandFrom(ds, i) ==
    IF i > Len(ds) THEN <<>>
    ELSE ChunksOfDoc(ds[i], i - 1) \o ExpandFrom(ds, i + 1)

Expand(ds) == ExpandFrom(ds, 1)

\* line 167
TextsOf(exp) == [i \in 1..Len(exp) |-> exp[i].text]

\* lines 185-193, with one entry per document instead of one per chunk
BuildMeta_per_doc(exp) ==
    LET firsts == SelectSeq(exp, LAMBDA e : e.chunk_id = 0)
    IN  [i \in 1..Len(firsts) |->
            [source |-> firsts[i].source, text |-> firsts[i].text, meta |-> firsts[i].meta,
             chunk_id |-> firsts[i].chunk_id, orig_idx |-> firsts[i].orig_idx]]

\* lines 185-193: the metadata list, one entry per chunk, in the order of expanded
BuildMeta(exp) ==
    [i \in 1..Len(exp) |->
        [source |-> exp[i].source, text |-> exp[i].text, meta |-> exp[i].meta,
         chunk_id |-> exp[i].chunk_id, orig_idx |-> exp[i].orig_idx]]

\* where a run of ingest() that is over stands: not started, complete, or
\* ended by an exception of a row adapter, of the embedding call, of the
\* normalization, or by the process being killed
Ended == {"idle", "done", "adapter_raised", "encode_failed", "norm_raised", "killed"}

\* lines 105-176: read the sources, chunk, embed and normalize.  An exception
\* that leaves the loops over the rows ends the run.  With no chunk at all,
\* encode returns an array without a second axis and the norm over axis 1
\* raises: the run ends before anything is written.
IngestStart(dir) ==
    /\ ipc \in Ended
    /\ runId < MaxRuns
    /\ runId' = runId + 1
    /\ dataDir' = dir
    /\ ragDirExists' = TRUE
    /\ LET ds == ReadDocs(dir)
           exp == Expand(ds)
       IN  IF ReadRaises(dir) \/ exp = <<>>
           THEN /\ ipc' = IF ReadRaises(dir) THEN "adapter_raised" ELSE "norm_raised"
                /\ docs' = <<>>
                /\ expanded' = <<>>
                /\ embeddings' = <<>>
           ELSE /\ ipc' = "encoded"
                /\ docs' = ds
                /\ expanded' = exp
                /\ embeddings' = NormalizeRows(Encode(TextsOf(exp)))
    /\ resp' = NoResp
    /\ UNCHANGED <<indexFile, metaFile, manifestFile, svcVars, chunkVars, reqs>>

\* an ingest() that creates the index file before it embeds
IngestEncodeFails_after_create(dir) ==
    /\ ipc \in Ended
    /\ runId < MaxRuns
    /\ ~ReadRaises(dir)
    /\ runId' = runId + 1
    /\ dataDir' = dir
    /\ ragDirExists' = TRUE
    /\ indexFile' = [exists |-> TRUE, run |-> runId + 1, vecs |-> <<>>]
    /\ ipc' = "encode_failed"
    /\ docs' = <<>>
    /\ expanded' = <<>>
    /\ embeddings' = <<>>
    /\ resp' = NoResp
    /\ UNCHANGED <<metaFile, manifestFile, svcVars, chunkVars, reqs>>

\* lines 105-169 when loading the model or the encode call raises: ingest()
\* has no handler, so the process ends there
IngestEncodeFails(dir) ==
    /\ ipc \in Ended
    /\ runId < MaxRuns
    /\ ~ReadRaises(dir)
    /\ runId' = runId + 1
    /\ dataDir' = dir
    /\ ragDirExists' = TRUE
    /\ ipc' = "encode_failed"
    /\ docs' = <<>>
    /\ expanded' = <<>>
    /\ embeddings' = <<>>
    /\ resp' = NoResp
    /\ UNCHANGED <<indexFile, metaFile, manifestFile, svcVars, chunkVars, reqs>>

\* lines 179-181: build the index over the embeddings and write it
IngestWriteIndex ==
    /\ ipc = "encoded"
    /\ indexFile' = [exists |-> TRUE, run |-> runId, vecs |-> embeddings]
    /\ ipc' = "index_written"
    /\ resp' = NoResp
    /\ UNCHANGED <<ragDirExists, metaFile, manifestFile, runId, dataDir, docs,
                   expanded, embeddings, svcVars, chunkVars, reqs>>

\* lines 185-195: write the metadata list
IngestWriteMeta ==
    /\ ipc = "index_written"
    /\ metaFile' = [exists |-> TRUE, run |-> runId, entries |-> BuildMeta(expanded)]
    /\ ipc' = "meta_written"
    /\ resp' = NoResp
    /\ UNCHANGED <<ragDirExists, indexFile, manifestFile, runId, dataDir, docs,
                   expanded, embeddings, svcVars, chunkVars, reqs>>

\* lines 199-209: write the manifest; the run is complete
IngestWriteManifest ==
    /\ ipc = "meta_written"
    /\ manifestFile' = [exists |-> TRUE, run |-> runId,
                        num_docs |-> Len(docs), num_chunks |-> Len(expanded)]
    /\ ipc' = "done"
    /\ resp' = NoResp
    /\ UNCHANGED <<ragDirExists, indexFile, metaFile, runId, dataDir, docs,
                   expanded, embeddings, svcVars, chunkVars, reqs>>

\* the process is killed (or a write raises) between two of its file writes
IngestInterrupted ==
    /\ ipc \in {"encoded", "index_written", "meta_written"}
    /\ ipc' = "killed"
    /\ docs' = <<>>
    /\ expanded' = <<>>
    /\ embeddings' = <<>>
    /\ resp' = NoResp
    /\ UNCHANGED <<diskVars, runId, dataDir, svcVars, chunkVars, reqs>>

(***************************************************************************)
(* The retrieval service: module-level load                                *)
(***************************************************************************)
NotLoadedMeta == [run |-> 0, entries |-> <<>>]
NotLoadedIndex == [run |-> 0, vecs |-> <<>>]

\* lines 39-43: the existence checks; a missing directory or file raises
SvcStart ==
    /\ svc = "down"
    /\ svc' = IF ragDirExists /\ indexFile.exists /\ metaFile.exists
              THEN "checked" ELSE "failed"
    /\ resp' = NoResp
    /\ UNCHANGED <<diskVars, ingestVars, INDEX_META, MANIFEST, faiss_index,
                   OPENAI_API_KEY, chunkVars, reqs>>

\* lines 45-46
SvcLoadMeta ==
    /\ svc = "checked"
    /\ INDEX_META' = [run |-> metaFile.run, entries |-> metaFile.entries]
    /\ svc' = "meta_loaded"
    /\ resp' = NoResp
    /\ UNCHANGED <<diskVars, ingestVars, MANIFEST, faiss_index, OPENAI_API_KEY, chunkVars, reqs>>

\* lines 49-52
SvcLoadManifest ==
    /\ svc = "meta_loaded"
    /\ MANIFEST' = manifestFile
    /\ svc' = "manifest_loaded"
    /\ resp' = NoResp
    /\ UNCHANGED <<diskVars, ingestVars, INDEX_META, faiss_index, OPENAI_API_KEY, chunkVars, reqs>>

\* lines 55-67: read the index, load the embedding model, configure the
\* generator when the openai package and a key are both present
SvcLoadIndex(key) ==
    /\ svc = "manifest_loaded"
    /\ faiss_index' = [run |-> indexFile.run, vecs |-> indexFile.vecs]
    /\ OPENAI_API_KEY' = key
    /\ svc' = "up"
    /\ resp' = NoResp
    /\ UNCHANGED <<diskVars, ingestVars, INDEX_META, MANIFEST, chunkVars, reqs>>

\* the service process ends
SvcStop ==
    /\ svc \in {"up", "failed"}
    /\ svc' = "down"
    /\ INDEX_META' = NotLoadedMeta
    /\ MANIFEST' = NoManifestFile
    /\ faiss_index' = NotLoadedIndex
    /\ OPENAI_API_KEY' = FALSE
    /\ resp' = NoResp
    /\ UNCHANGED <<diskVars, ingestVars, chunkVars, reqs>>

(***************************************************************************)
(* The retrieval service: requests                                         *)
(***************************************************************************)
\* lines 85-96: join the labels the search returned against INDEX_META,
\* skipping a label that is negative or beyond the metadata list
RECURSIVE RetrieveLoop(_, _, _, _)
RetrieveLoop(D, I, p, meta) ==
    IF p > Len(I) THEN <<>>
    ELSE IF I[p] < 0 \/ I[p] >= Len(meta) THEN RetrieveLoop(D, I, p + 1, meta)
    ELSE << [score |-> D[p], index |-> I[p], text |-> meta[I[p] + 1].text,
             meta |-> meta[I[p] + 1].meta, source |-> meta[I[p] + 1].source,
             chunk_id |-> meta[I[p] + 1].chunk_id] >>
         \o RetrieveLoop(D, I, p + 1, meta)

\* lines 81-97
retrieve(query, top_k, tie) ==
    LET qvec == embed_query(query)
        found == FaissSearch(faiss_index.vecs, qvec, top_k, tie)
    IN  RetrieveLoop(found.D, found.I, 1, INDEX_META.entries)

\* line 121, without the lower clamp
ClampTopK_no_floor(top_k) == Min(TopKMax, top_k)

\* line 121
ClampTopK(top_k) == Max(TopKMin, Min(TopKMax, top_k))

NoDocsMsg ==
    <<"N", "o", " ", "r", "e", "l", "e", "v", "a", "n", "t", " ",
      "d", "o", "c", "u", "m", "e", "n", "t", "s", " ", "f", "o", "u", "n", "d", ".">>

\* line 154: f"[{i}] {r.get('text')}", i counted from 1
Snippets(retrieved) ==
    [i \in 1..Len(retrieved) |-> <<"[">> \o IntToStr(i) \o <<"]", SP>> \o retrieved[i].text]

\* lines 152-155, joining every snippet
FallbackAnswer_no_cap(retrieved) ==
    IF retrieved = <<>> THEN NoDocsMsg
    ELSE Join(<<NL, NL>>, Snippets(retrieved))

\* lines 152-155, without the branch for no snippet
FallbackAnswer_no_literal(retrieved) ==
    LET snippets == Snippets(retrieved)
    IN  Join(<<NL, NL>>, SubSeq(snippets, 1, Min(SnippetCap, Len(snippets))))

\* lines 152-155
FallbackAnswer(retrieved) ==
    LET snippets == Snippets(retrieved)
    IN  IF snippets = <<>> THEN NoDocsMsg
        ELSE Join(<<NL, NL>>, SubSeq(snippets, 1, Min(SnippetCap, Len(snippets))))

\* What the generator call of line 142 can do: raise, or return a message
\* whose content is a non-blank text, a blank text or the empty text.
GenOutcomes ==
    { [raises |-> TRUE, content |-> <<>>],
      [raises |-> FALSE, content |-> <<SP, "o", "k", SP>>],
      [raises |-> FALSE, content |-> <<SP>>],
      [raises |-> FALSE, content |-> <<>>] }

\* a query the embedding model maps to the zero vector
ZeroQuery == <<"b", "a", "b">>

Queries == { <<>>, <<SP, SP>>, <<"a">>, <<SP, "b", SP>>, <<"a", SP, "b">>, ZeroQuery }

TopKs == { 0 - 1, 0, 3, 6, 21, 100 }

NOTE_FAILED == "OpenAI call failed"
NOTE_NO_KEY == "No OpenAI key present; returned retrieved passages."

\* lines 134-160 with used_openai set before the generator is called
Answer_flag_before_call(retrieved, key, gen) ==
    LET ok == key /\ ~gen.raises
        text == IF ok THEN Strip(gen.content) ELSE <<>>
        note1 == IF key /\ gen.raises THEN NOTE_FAILED ELSE ""
        fallback == text = <<>>
    IN  [answer |-> IF fallback THEN FallbackAnswer(retrieved) ELSE text,
         used_openai |-> key,
         note |-> IF fallback /\ note1 = "" THEN NOTE_NO_KEY ELSE note1]

\* lines 134-160, from the retrieved list on.  answer None is held as the
\* empty text: line 151 asks only whether the answer is falsy.
Answer(retrieved, key, gen) ==
    LET called == key
        ok == called /\ ~gen.raises
        text == IF ok THEN Strip(gen.content) ELSE <<>>
        note1 == IF called /\ gen.raises THEN NOTE_FAILED ELSE ""
        fallback == text = <<>>
    IN  [answer |-> IF fallback THEN FallbackAnswer(retrieved) ELSE text,
         used_openai |-> ok,
         note |-> IF fallback /\ note1 = "" THEN NOTE_NO_KEY ELSE note1]

\* POST /chat with an empty query after strip: HTTP 400 at line 119
ChatRejected(rawQuery, top_k) ==
    [kind |-> "chat", status |-> 400, raw |-> rawQuery, top_k |-> top_k,
     query |-> <<>>, retrieved |-> <<>>, answer |-> <<>>, used_openai |-> FALSE,
     note |-> "", calls |-> <<>>, gen |-> "none", gen_text |-> <<>>,
     qvec |-> <<>>, labels |-> <<>>]

\* POST /chat, lines 115-160.  Beside the payload the response records what
\* the request was and did: raw and top_k as sent, calls the collaborators
\* reached, in order, gen how the generator call ended and gen_text the text
\* of line 143, qvec the query vector of line 82 and labels the labels I[0]
\* of line 83.
ChatResponse(rawQuery, top_k, gen, tie) ==
    LET query == Strip(rawQuery)
    IN  IF query = <<>> THEN ChatRejected(rawQuery, top_k)
        ELSE LET retrieved == retrieve(query, ClampTopK(top_k), tie)
                 a == Answer(retrieved, OPENAI_API_KEY, gen)
             IN  [kind |-> "chat", status |-> 200, raw |-> rawQuery, top_k |-> top_k,
                  query |-> query, retrieved |-> retrieved, answer |-> a.answer,
                  used_openai |-> a.used_openai, note |-> a.note,
                  calls |-> <<"embed", "search">>
                            \o (IF OPENAI_API_KEY THEN <<"generate">> ELSE <<>>),
                  gen |-> IF ~OPENAI_API_KEY THEN "none"
                          ELSE IF gen.raises THEN "raised" ELSE "returned",
                  gen_text |-> IF OPENAI_API_KEY /\ ~gen.raises
                               THEN Strip(gen.content) ELSE <<>>,
                  qvec |-> embed_query(query),
                  labels |-> FaissSearch(faiss_index.vecs, embed_query(query),
                                         ClampTopK(top_k), tie).I]

\* resp holds one response at a time: a request is taken when the slot is free
Chat(rawQuery, top_k, gen, tie) ==
    /\ svc = "up"
    /\ resp = NoResp
    /\ resp' = ChatResponse(rawQuery, top_k, gen, tie)
    /\ UNCHANGED <<diskVars, ingestVars, svcVars, chunkVars, reqs>>

\* GET /rag/sources, lines 162-164
Sources ==
    /\ svc = "up"
    /\ resp = NoResp
    /\ resp' = [kind |-> "sources", manifest |-> MANIFEST,
                num_chunks |-> Len(INDEX_META.entries)]
    /\ UNCHANGED <<diskVars, ingestVars, svcVars, chunkVars, reqs>>

\* the caller has read the response
Deliver ==
    /\ resp # NoResp
    /\ resp' = NoResp
    /\ UNCHANGED <<diskVars, ingestVars, svcVars, chunkVars, reqs>>

\* the inputs of a request that its path reads: the generator is called only
\* with a key and a non-empty query, the index searched only with a query
GensFor(q) == IF OPENAI_API_KEY /\ Strip(q) # <<>> THEN GenOutcomes
              ELSE {[raises |-> FALSE, content |-> <<>>]}
TiesFor(q) == IF Strip(q) # <<>> THEN TieOrders ELSE {"asc"}

(***************************************************************************)
(* Specification of the bundle, the ingestion runs and the service         *)
(***************************************************************************)
ChunkerIdle ==
    /\ cpc = "unused"
    /\ ctext = <<>>
    /\ cwords = 0
    /\ coverlap = 0
    /\ c_i = 0
    /\ cchunks = <<>>
    /\ cresult = <<>>

Init ==
    /\ ragDirExists = FALSE
    /\ indexFile = NoIndexFile
    /\ metaFile = NoMetaFile
    /\ manifestFile = NoManifestFile
    /\ ipc = "idle"
    /\ runId = 0
    /\ dataDir = NoData
    /\ docs = <<>>
    /\ expanded = <<>>
    /\ embeddings = <<>>
    /\ svc = "down"
    /\ INDEX_META = NotLoadedMeta
    /\ MANIFEST = NoManifestFile
    /\ faiss_index = NotLoadedIndex
    /\ OPENAI_API_KEY = FALSE
    /\ resp = NoResp
    /\ reqs = NoRequests
    /\ ChunkerIdle

Next ==
    \/ \E dir \in DataDirs : IngestStart(dir)
    \/ \E dir \in DataDirs : IngestEncodeFails(dir)
    \/ IngestWriteIndex
    \/ IngestWriteMeta
    \/ IngestWriteManifest
    \/ IngestInterrupted
    \/ SvcStart
    \/ SvcLoadMeta
    \/ SvcLoadManifest
    \/ \E key \in BOOLEAN : SvcLoadIndex(key)
    \/ SvcStop
    \/ \E q \in {<<>>, <<"a">>, ZeroQuery} : \E gen \in GensFor(q), tie \in TiesFor(q) :
          Chat(q, DEFAULT_TOP_K, gen, tie)
    \/ Sources
    \/ Deliver

Spec == Init /\ [][Next]_vars

(***************************************************************************)
(* Specification of the service over a bundle found on disk.               *)
(*                                                                         *)
(* The service starts on files that ingest() runs left in rag_store/: the  *)
(* index written by a run over one state of backend/data/ and the metadata *)
(* and manifest written by a run over the same or another one (the second  *)
(* is what Spec reaches when a run is interrupted after line 181).  The    *)
(* requests then range over every query, top_k, generator outcome and tie  *)
(* order.                                                                  *)
(***************************************************************************)
IndexedDirs == {dir \in DataDirs : ~ReadRaises(dir) /\ Expand(ReadDocs(dir)) # <<>>}

WrittenIndex(dir, run) ==
    [exists |-> TRUE, run |-> run,
     vecs |-> NormalizeRows(Encode(TextsOf(Expand(ReadDocs(dir)))))]

WrittenMeta(dir, run) ==
    [exists |-> TRUE, run |-> run, entries |-> BuildMeta(Expand(ReadDocs(dir)))]

WrittenManifest(dir, run) ==
    [exists |-> TRUE, run |-> run, num_docs |-> Len(ReadDocs(dir)),
     num_chunks |-> Len(Expand(ReadDocs(dir)))]

SvcInit ==
    /\ ragDirExists = TRUE
    /\ \E x \in IndexedDirs, y \in IndexedDirs :
          /\ indexFile = WrittenIndex(x, IF x = y THEN 1 ELSE 2)
          /\ metaFile = WrittenMeta(y, 1)
          /\ manifestFile = WrittenManifest(y, 1)
          /\ ipc = IF x = y THEN "done" ELSE "killed"
          /\ runId = IF x = y THEN 1 ELSE 2
          /\ dataDir = x
    /\ docs = <<>>
    /\ expanded = <<>>
    /\ embeddings = <<>>
    /\ svc = "down"
    /\ INDEX_META = NotLoadedMeta
    /\ MANIFEST = NoManifestFile
    /\ faiss_index = NotLoadedIndex
    /\ OPENAI_API_KEY = FALSE
    /\ resp = NoResp
    /\ reqs = NoRequests
    /\ ChunkerIdle

SvcNext ==
    \/ SvcStart
    \/ SvcLoadMeta
    \/ SvcLoadManifest
    \/ \E key \in BOOLEAN : SvcLoadIndex(key)
    \/ SvcStop
    \/ \E q \in Queries, k \in TopKs : \E gen \in GensFor(q), tie \in TiesFor(q) :
          Chat(q, k, gen, tie)
    \/ Sources
    \/ Deliver

SvcSpec == SvcInit /\ [][SvcNext]_vars

(***************************************************************************)
(* Specification of concurrent requests.                                   *)
(*                                                                         *)
(* chat and sources are plain functions, which the framework runs on a     *)
(* pool of threads: several calls are in flight at once and their          *)
(* statements interleave.  Each slot of reqs is one call with its locals.  *)
(* The service has loaded a bundle; the collaborators' outputs (the tie    *)
(* order of the search, the generator's outcome) are inputs of the step    *)
(* that calls them.                                                        *)
(***************************************************************************)
Slots == 1..MaxRequests

ConcQueries == { <<SP, SP>>, <<"a">> }
ConcTopKs == { 0, 3 }

\* lines 117-121: strip the query; reject it when empty, else clamp top_k
ReqArrive(r, rawQuery, top_k) ==
    /\ svc = "up"
    /\ reqs[r].pc = "free"
    /\ reqs' = [reqs EXCEPT ![r] =
          IF Strip(rawQuery) = <<>>
          THEN [FreeSlot EXCEPT !.pc = "done", !.raw = rawQuery, !.top_k = top_k,
                                !.response = ChatRejected(rawQuery, top_k)]
          ELSE [FreeSlot EXCEPT !.pc = "validated", !.raw = rawQuery, !.top_k = top_k,
                                !.query = Strip(rawQuery), !.k = ClampTopK(top_k)]]
    /\ UNCHANGED <<diskVars, ingestVars, svcVars, resp, chunkVars>>

\* line 82
ReqEmbed(r) ==
    /\ reqs[r].pc = "validated"
    /\ reqs' = [reqs EXCEPT ![r].pc = "embedded", ![r].qvec = embed_query(reqs[r].query)]
    /\ UNCHANGED <<diskVars, ingestVars, svcVars, resp, chunkVars>>

\* line 83
ReqSearch(r, tie) ==
    /\ reqs[r].pc = "embedded"
    /\ LET found == FaissSearch(faiss_index.vecs, reqs[r].qvec, reqs[r].k, tie)
       IN  reqs' = [reqs EXCEPT ![r].pc = "searched", ![r].tie = tie,
                                ![r].D = found.D, ![r].I = found.I]
    /\ UNCHANGED <<diskVars, ingestVars, svcVars, resp, chunkVars>>

\* lines 84-97 taking each entry out of the shared list: INDEX_META.pop(idx)
ReqJoin_pops_meta(r) ==
    /\ reqs[r].pc = "searched"
    /\ reqs' = [reqs EXCEPT ![r].pc = "retrieved",
                            ![r].retrieved = RetrieveLoop(reqs[r].D, reqs[r].I, 1,
                                                          INDEX_META.entries)]
    /\ INDEX_META' = [INDEX_META EXCEPT
                         !.entries = SubSeq(INDEX_META.entries, 1,
                                            Len(INDEX_META.entries) - Len(reqs[r].I))]
    /\ UNCHANGED <<diskVars, ingestVars, svc, MANIFEST, faiss_index, OPENAI_API_KEY,
                   resp, chunkVars>>

\* lines 84-97
ReqJoin(r) ==
    /\ reqs[r].pc = "searched"
    /\ reqs' = [reqs EXCEPT ![r].pc = "retrieved",
                            ![r].retrieved = RetrieveLoop(reqs[r].D, reqs[r].I, 1,
                                                          INDEX_META.entries)]
    /\ UNCHANGED <<diskVars, ingestVars, svcVars, resp, chunkVars>>

\* lines 124-160: call the generator when configured, else fall back
ReqAnswer(r, gen) ==
    /\ reqs[r].pc = "retrieved"
    /\ LET a == Answer(reqs[r].retrieved, OPENAI_API_KEY, gen)
       IN  reqs' = [reqs EXCEPT ![r].pc = "done", ![r].response =
              [kind |-> "chat", status |-> 200, raw |-> reqs[r].raw,
               top_k |-> reqs[r].top_k, query |-> reqs[r].query,
               retrieved |-> reqs[r].retrieved, answer |-> a.answer,
               used_openai |-> a.used_openai, note |-> a.note,
               calls |-> <<"embed", "search">>
                         \o (IF OPENAI_API_KEY THEN <<"generate">> ELSE <<>>),
               gen |-> IF ~OPENAI_API_KEY THEN "none"
                       ELSE IF gen.raises THEN "raised" ELSE "returned",
               gen_text |-> IF OPENAI_API_KEY /\ ~gen.raises
                            THEN Strip(gen.content) ELSE <<>>,
               qvec |-> reqs[r].qvec, labels |-> reqs[r].I]]
    /\ UNCHANGED <<diskVars, ingestVars, svcVars, resp, chunkVars>>

\* GET /rag/sources, lines 162-164
ReqSources(r) ==
    /\ svc = "up"
    /\ reqs[r].pc = "free"
    /\ reqs' = [reqs EXCEPT ![r] =
          [FreeSlot EXCEPT !.pc = "done",
                           !.response = [kind |-> "sources", manifest |-> MANIFEST,
                                         num_chunks |-> Len(INDEX_META.entries)]]]
    /\ UNCHANGED <<diskVars, ingestVars, svcVars, resp, chunkVars>>

\* the caller has read the response; the slot is free again
ReqDeliver(r) ==
    /\ reqs[r].pc = "done"
    /\ reqs' = [reqs EXCEPT ![r] = FreeSlot]
    /\ UNCHANGED <<diskVars, ingestVars, svcVars, resp, chunkVars>>

\* the service is up on the bundle of a run over a corpus with equal vectors,
\* or on the index of that run beside the metadata of an earlier one
ConcInit ==
    /\ ragDirExists = TRUE
    /\ \E x \in {d \in IndexedDirs : Len(Expand(ReadDocs(d))) = 5},
          y \in {d \in IndexedDirs : Len(Expand(ReadDocs(d))) \in {1, 5}} :
          /\ indexFile = WrittenIndex(x, IF x = y THEN 1 ELSE 2)
          /\ metaFile = WrittenMeta(y, 1)
          /\ manifestFile = WrittenManifest(y, 1)
          /\ ipc = IF x = y THEN "done" ELSE "killed"
          /\ runId = IF x = y THEN 1 ELSE 2
          /\ dataDir = x
    /\ docs = <<>>
    /\ expanded = <<>>
    /\ embeddings = <<>>
    /\ svc = "up"
    /\ INDEX_META = [run |-> metaFile.run, entries |-> metaFile.entries]
    /\ MANIFEST = manifestFile
    /\ faiss_index = [run |-> indexFile.run, vecs |-> indexFile.vecs]
    /\ OPENAI_API_KEY \in BOOLEAN
    /\ resp = NoResp
    /\ reqs = NoRequests
    /\ ChunkerIdle

ConcNext ==
    \E r \in Slots :
        \/ \E q \in ConcQueries, k \in ConcTopKs : ReqArrive(r, q, k)
        \/ ReqEmbed(r)
        \/ \E tie \in TieOrders : ReqSearch(r, tie)
        \/ ReqJoin(r)
        \/ \E gen \in GensFor(reqs[r].query) : ReqAnswer(r, gen)
        \/ ReqSources(r)
        \/ ReqDeliver(r)

ConcSpec == ConcInit /\ [][ConcNext]_vars

(***************************************************************************)
(* Specification of chunk_text called on its own: every text over a small  *)
(* alphabet, every chunk size and every overlap below the chunk size.      *)
(***************************************************************************)
Alphabet == {SP, "a", "b"}
Texts == UNION {[1..m -> Alphabet] : m \in 0..MaxTextLen}

\* chunk_text(ctext, cwords, coverlap), lines 92-102
ChunkCall ==
    /\ cpc = "ready"
    /\ cresult' = chunk_text(ctext, cwords, coverlap)
    /\ cpc' = "returned"
    /\ UNCHANGED <<ctext, cwords, coverlap, c_i, cchunks, diskVars, ingestVars, svcVars, resp, reqs>>

ChunkInit ==
    /\ ragDirExists = FALSE
    /\ indexFile = NoIndexFile
    /\ metaFile = NoMetaFile
    /\ manifestFile = NoManifestFile
    /\ ipc = "idle"
    /\ runId = 0
    /\ dataDir = NoData
    /\ docs = <<>>
    /\ expanded = <<>>
    /\ embeddings = <<>>
    /\ svc = "down"
    /\ INDEX_META = NotLoadedMeta
    /\ MANIFEST = NoManifestFile
    /\ faiss_index = NotLoadedIndex
    /\ OPENAI_API_KEY = FALSE
    /\ resp = NoResp
    /\ reqs = NoRequests
    /\ cpc = "ready"
    /\ ctext \in Texts
    /\ cwords \in 1..MaxChunkWords
    /\ coverlap \in 0..(cwords - 1)
    /\ c_i = 0
    /\ cchunks = <<>>
    /\ cresult = <<>>

ChunkNext == ChunkCall

ChunkSpec == ChunkInit /\ [][ChunkNext]_vars

(***************************************************************************)
(* Specification of chunk_text run statement by statement, so that a call  *)
(* that never returns is a behaviour and not an evaluation that never      *)
(* ends.  The texts are made of distinct tokens, the overlap ranges below, *)
(* at and above the chunk size.                                            *)
(***************************************************************************)
TokenPool == << <<"a">>, <<"b">>, <<"a", "b">>, <<"b", "a">>, <<"a", "a">>,
                <<"b", "b">>, <<"a", "b", "a">> >>

\* the first n tokens of the pool, separated by single spaces
TokensText(n) == Join(<<SP>>, SubSeq(TokenPool, 1, n))

RunTexts ==
    {TokensText(n) : n \in 0..MaxTokens}
    \cup { <<SP, "a", SP, SP, "b", SP, "a", "b", SP>>, <<SP>> }

\* The loop of lines 98-101 is left as soon as it has appended more chunks
\* than any returning call over these texts does: from there on it only
\* repeats itself.
MaxChunks == MaxTokens + 2

\* lines 93-97: split; a short text is returned as it is, else the loop starts
ChunkEnter ==
    /\ cpc = "ready"
    /\ IF Len(Split(ctext)) <= cwords
       THEN /\ cresult' = <<ctext>>
            /\ cpc' = "returned"
            /\ UNCHANGED <<c_i, cchunks>>
       ELSE /\ cchunks' = <<>>
            /\ c_i' = 0
            /\ cpc' = "loop"
            /\ UNCHANGED cresult
    /\ UNCHANGED <<ctext, cwords, coverlap, diskVars, ingestVars, svcVars, resp, reqs>>

\* lines 98-101: one turn of the while loop
ChunkIterate ==
    /\ cpc = "loop"
    /\ c_i < Len(Split(ctext))
    /\ Len(cchunks) < MaxChunks
    /\ cchunks' = Append(cchunks, Join(<<SP>>, Slice(Split(ctext), c_i, cwords)))
    /\ c_i' = c_i + Stride(cwords, coverlap)
    /\ UNCHANGED <<cpc, ctext, cwords, coverlap, cresult, diskVars, ingestVars,
                   svcVars, resp, reqs>>

\* lines 98 and 102: the loop condition fails, the chunks are returned
ChunkReturn ==
    /\ cpc = "loop"
    /\ ~(c_i < Len(Split(ctext)))
    /\ cresult' = cchunks
    /\ cpc' = "returned"
    /\ UNCHANGED <<ctext, cwords, coverlap, c_i, cchunks, diskVars, ingestVars,
                   svcVars, resp, reqs>>

ChunkRunInit ==
    /\ ragDirExists = FALSE
    /\ indexFile = NoIndexFile
    /\ metaFile = NoMetaFile
    /\ manifestFile = NoManifestFile
    /\ ipc = "idle"
    /\ runId = 0
    /\ dataDir = NoData
    /\ docs = <<>>
    /\ expanded = <<>>
    /\ embeddings = <<>>
    /\ svc = "down"
    /\ INDEX_META = NotLoadedMeta
    /\ MANIFEST = NoManifestFile
    /\ faiss_index = NotLoadedIndex
    /\ OPENAI_API_KEY = FALSE
    /\ resp = NoResp
    /\ reqs = NoRequests
    /\ cpc = "ready"
    /\ ctext \in RunTexts
    /\ cwords \in 1..MaxSize
    /\ coverlap \in 0..(cwords + 1)
    /\ c_i = 0
    /\ cchunks = <<>>
    /\ cresult = <<>>

ChunkRunNext ==
    \/ ChunkEnter
    \/ ChunkIterate
    \/ ChunkReturn

ChunkRunSpec == ChunkRunInit /\ [][ChunkRunNext]_vars

\* a call that is scheduled keeps running: each statement that can be taken
\* is taken
ChunkRunFairSpec == ChunkRunSpec /\ WF_vars(ChunkRunNext)

(***************************************************************************)
(* Properties of the bundle: ingestion runs and the service's load (Spec)  *)
(***************************************************************************)

\* C1: after a completed ingest() run the index file and index_meta.json are
\* both of that run, hold the same number of entries, and for every position
\* i the metadata entry at i is chunk i of the run and vector i is the
\* normalized embedding of that chunk's text.
C1_IngestAligned ==
    ipc = "done" =>
        /\ indexFile.exists /\ metaFile.exists
        /\ indexFile.run = runId /\ metaFile.run = runId
        /\ Len(indexFile.vecs) = Len(metaFile.entries)
        /\ Len(metaFile.entries) = Len(expanded)
        /\ \A i \in 1..Len(expanded) :
              /\ metaFile.entries[i].text = expanded[i].text
              /\ metaFile.entries[i].source = expanded[i].source
              /\ metaFile.entries[i].chunk_id = expanded[i].chunk_id
              /\ metaFile.entries[i].orig_idx = expanded[i].orig_idx
              /\ indexFile.vecs[i] = embed_query(expanded[i].text)

\* a second run has completed over a corpus with a document of several chunks
C1_Witness ==
    /\ ipc = "done"
    /\ runId = 2
    /\ \E i \in 1..Len(metaFile.entries) : metaFile.entries[i].chunk_id > 0
    /\ Len(indexFile.vecs) = Len(metaFile.entries)

\* C2: whenever the service has loaded the bundle, the index and the metadata
\* it holds were written by the same ingest() run.
C2_LoadedFromOneRun ==
    svc = "up" => INDEX_META.run = faiss_index.run

\* C3: the service never comes up on a bundle whose metadata list and index
\* differ in length (the load fails instead).
C3_MismatchNotServed ==
    svc = "up" => Len(INDEX_META.entries) = Len(faiss_index.vecs)

\* C14: a run of ingest() in which the embedding call fails ends without
\* having written any of the three bundle files: the step leaves them as
\* they were, and none of them is of the failed run.
C14_EmbeddingFailureWritesNothing ==
    [][(ipc' = "encode_failed") =>
          /\ UNCHANGED <<indexFile, metaFile, manifestFile>>
          /\ indexFile'.run # runId'
          /\ metaFile'.run # runId'
          /\ manifestFile'.run # runId']_vars

\* the embedding call failed in a second run; the bundle of the first is there
C14_Witness ==
    /\ ipc = "encode_failed"
    /\ runId = 2
    /\ indexFile.exists /\ indexFile.run = 1
    /\ metaFile.exists /\ metaFile.run = 1
    /\ manifestFile.exists /\ manifestFile.run = 1

\* the sources of a data directory, as <<file, name, has its own adapter>>
SourcesOf(dir) ==
    << <<dir.alerts, ALERTS_F, TRUE>>, <<dir.stops, STOPS_F, TRUE>>,
       <<dir.extras[1], EXTRA_FILES[1], FALSE>>, <<dir.extras[2], EXTRA_FILES[2], FALSE>>,
       <<dir.extras[3], EXTRA_FILES[3], FALSE>> >>

\* a source none of whose rows makes an adapter raise
CleanSource(src) ==
    src[1].readable /\ \A j \in 1..Len(src[1].rows) : src[1].rows[j].adapter = "ok"

\* C15, as claimed: a read or row-adapter failure in a source never ends the
\* run, and once the run has written its metadata every row of every other
\* readable source has its chunks there.
C15_SourceFailureTolerated ==
    /\ ipc # "adapter_raised"
    /\ (metaFile.exists /\ metaFile.run = runId) =>
          \A k \in 1..5 :
              CleanSource(SourcesOf(dataDir)[k]) =>
                  \A j \in 1..Len(SourcesOf(dataDir)[k][1].rows) :
                      \E e \in 1..Len(metaFile.entries) :
                          /\ metaFile.entries[e].source = SourcesOf(dataDir)[k][2]
                          /\ metaFile.entries[e].meta.source_row = j - 1

\* the place of a source in the order ingest() reads them
SourceRank(name) ==
    IF name = ALERTS_F THEN 1
    ELSE IF name = STOPS_F THEN 2
    ELSE 2 + (CHOOSE e \in 1..Len(EXTRA_FILES) : EXTRA_FILES[e] = name)

\* C18: the metadata list is ordered by source (alerts, stops, then the extra
\* files as listed), then by row within a source, then by chunk within a
\* document: along the list orig_idx never decreases, it grows by one from a
\* document to the next, and the chunk_id values of a document are 0, 1, 2, ...
C18_MetadataOrder ==
    metaFile.exists =>
        LET m == metaFile.entries
        IN  /\ Len(m) >= 1 => (m[1].orig_idx = 0 /\ m[1].chunk_id = 0)
            /\ \A i \in 1..(Len(m) - 1) :
                  /\ SourceRank(m[i].source) <= SourceRank(m[i+1].source)
                  /\ m[i].orig_idx <= m[i+1].orig_idx
                  /\ IF m[i].orig_idx = m[i+1].orig_idx
                     THEN /\ m[i+1].chunk_id = m[i].chunk_id + 1
                          /\ m[i+1].source = m[i].source
                          /\ m[i+1].meta = m[i].meta
                     ELSE /\ m[i+1].orig_idx = m[i].orig_idx + 1
                          /\ m[i+1].chunk_id = 0
                          /\ (m[i+1].source = m[i].source =>
                                m[i+1].meta.source_row = m[i].meta.source_row + 1)

\* the metadata of a run over a stops document of two chunks followed by a
\* row of the third extra file
C18_Witness ==
    /\ metaFile.exists
    /\ \E i \in 1..Len(metaFile.entries) :
          metaFile.entries[i].source = STOPS_F /\ metaFile.entries[i].chunk_id = 1
    /\ \E i, j \in 1..Len(metaFile.entries) :
          /\ i < j
          /\ metaFile.entries[i].source = STOPS_F
          /\ metaFile.entries[j].source = EXTRA_FILES[3]

\* a vector as the normalization step leaves it: of length 1, or the zero
\* vector when the embedding model returned the zero vector
Normalized(v, raw) ==
    IF raw = <<0, 0>> THEN v = <<0, 0>>
    ELSE InnerProduct(v, v) = Scale * Scale

\* C17: every vector ingest() holds after the normalization step, every
\* vector of the index file and every query vector of embed_query has L2
\* norm 1, except that the zero vector stays the zero vector.
C17_UnitNorm ==
    /\ \A i \in 1..Len(embeddings) :
          Normalized(embeddings[i], EncodeOne(expanded[i].text))
    /\ \A i \in 1..Len(indexFile.vecs) :
          InnerProduct(indexFile.vecs[i], indexFile.vecs[i]) \in {0, Scale * Scale}
    /\ (resp.kind = "chat" /\ resp.status = 200) =>
          Normalized(resp.qvec, EncodeOne(resp.query))

\* the index file holds unit vectors and a zero vector, and a query has been
\* embedded to the zero vector
C17_Witness ==
    /\ \E i \in 1..Len(indexFile.vecs) : indexFile.vecs[i] = <<0, 0>>
    /\ \E i \in 1..Len(indexFile.vecs) : indexFile.vecs[i] = <<3, 4>>
    /\ resp.kind = "chat" /\ resp.status = 200
    /\ resp.query = ZeroQuery
    /\ resp.qvec = <<0, 0>>

(***************************************************************************)
(* Properties of the requests (SvcSpec)                                    *)
(***************************************************************************)
IsChat == resp.kind = "chat"
Answered == IsChat /\ resp.status = 200
Blank(s) == \A i \in 1..Len(s) : s[i] = SP
\* the loaded bundle is a corpus of n chunks: index and metadata both hold n
CorpusSize(n) == Len(faiss_index.vecs) = n /\ Len(INDEX_META.entries) = n

\* C4: over a corpus of n chunks, a chat request with a non-empty query and
\* any top_k is answered (no error) with exactly min(max(1, min(20, top_k)), n)
\* retrieved results.
C4_ResultCount ==
    (IsChat /\ ~Blank(resp.raw)) =>
        /\ resp.status = 200
        /\ \A n \in 0..(BigRows + 1) :
              CorpusSize(n) => Len(resp.retrieved) = Min(Max(1, Min(20, resp.top_k)), n)

\* top_k = 100 against a corpus of 5 chunks: exactly 5 results
C4_Witness ==
    /\ Answered
    /\ resp.top_k = 100
    /\ CorpusSize(5)
    /\ Len(resp.retrieved) = 5

C6_EmptyQueryRejected ==
    [][(resp' # resp /\ resp'.kind = "chat" /\ Blank(resp'.raw)) =>
          /\ resp'.status = 400
          /\ resp'.calls = <<>>
          /\ resp'.retrieved = <<>>
          /\ UNCHANGED <<svcVars, diskVars>>]_vars

\* a whitespace-only query has been rejected
C6_Witness ==
    /\ IsChat
    /\ resp.raw = <<SP, SP>>
    /\ resp.status = 400
    /\ resp.calls = <<>>

\* the first n passages' texts in rank order, the i-th prefixed with "[i] ",
\* joined by a blank line (n <= 9)
RECURSIVE CitedConcat(_, _)
CitedConcat(retrieved, n) ==
    IF n = 0 THEN <<>>
    ELSE (IF n = 1 THEN <<>> ELSE CitedConcat(retrieved, n - 1) \o <<NL, NL>>)
         \o <<"[", Digit(n), "]", SP>> \o retrieved[n].text

\* the deterministic fallback computed from the retrieved passages
ExpectedFallback(retrieved) ==
    IF Len(retrieved) = 0 THEN NoDocsMsg
    ELSE CitedConcat(retrieved, Min(5, Len(retrieved)))

\* C7: when the generator is configured and its call raises, the request
\* still succeeds, with a non-empty answer equal to the deterministic fallback
\* over the retrieved passages and used_openai false.
C7_GeneratorFailureFallsBack ==
    (IsChat /\ resp.gen = "raised") =>
        /\ resp.status = 200
        /\ resp.answer # <<>>
        /\ resp.answer = ExpectedFallback(resp.retrieved)
        /\ resp.used_openai = FALSE

\* the generator raised on a request that retrieved passages
C7_Witness ==
    /\ IsChat
    /\ resp.gen = "raised"
    /\ Len(resp.retrieved) >= 2
    /\ resp.status = 200
    /\ resp.used_openai = FALSE

\* C8, as claimed: with zero results for a valid query the answer is the
\* literal "No relevant documents found.", generator configured or not.
C8_NoResultsLiteral ==
    (Answered /\ resp.retrieved = <<>>) => resp.answer = NoDocsMsg

\* C8, amended: with zero results for a valid query, retrieved is empty and
\* the answer is the literal unless a configured generator returned a
\* non-blank text, which is then the answer.
C8_NoResultsLiteralUnlessGenerated ==
    (Answered /\ Len(resp.retrieved) = 0) =>
        /\ resp.retrieved = <<>>
        /\ resp.answer = IF resp.gen = "returned" /\ resp.gen_text # <<>>
                         THEN resp.gen_text ELSE NoDocsMsg

\* zero results with a generator that raised: the literal
C8_Witness ==
    /\ Answered
    /\ resp.retrieved = <<>>
    /\ resp.gen = "raised"
    /\ resp.answer = NoDocsMsg

\* C9: with no generator configured, or when its call failed, the answer is
\* exactly the texts of the first min(5, number of results) passages in rank
\* order, the i-th prefixed with "[i]", joined; nothing of the passages
\* ranked 6 to 20 is in it.  (With no passage at all there is nothing to
\* join: that answer is C8's.)
C9_FallbackIsTopFive ==
    (Answered /\ resp.gen \in {"none", "raised"} /\ Len(resp.retrieved) >= 1) =>
        resp.answer = CitedConcat(resp.retrieved, Min(5, Len(resp.retrieved)))

\* a fallback answer over 20 retrieved passages
C9_Witness ==
    /\ Answered
    /\ resp.gen = "none"
    /\ Len(resp.retrieved) = 20
    /\ resp.answer = CitedConcat(resp.retrieved, 5)

\* the positions of the loaded index that hold the vector v
Holding(v) == {i \in 1..Len(faiss_index.vecs) : faiss_index.vecs[i] = v}

\* the inner product of the vector at position i with the query of the response
ScoreAt(i) == InnerProduct(faiss_index.vecs[i], resp.qvec)

\* C16, as claimed: a search whose query vector is the stored vector of a
\* chunk returns that chunk's index position at rank 1, also when other
\* chunks hold an identical vector.
C16_SelfQueryRanksFirst ==
    Answered => \A i \in Holding(resp.qvec) : resp.labels[1] = i - 1

\* C16, amended: a search whose query vector is the stored vector of a chunk
\* returns at rank 1 a position whose score is the highest of the index; it
\* is that chunk's own position when no other stored vector scores as high.
C16_SelfQueryRanksFirstUnlessTied ==
    Answered =>
        \A i \in Holding(resp.qvec) :
            /\ resp.labels[1] >= 0
            /\ \A j \in 1..Len(faiss_index.vecs) : ScoreAt(resp.labels[1] + 1) >= ScoreAt(j)
            /\ (\A j \in 1..Len(faiss_index.vecs) : j # i => ScoreAt(j) < ScoreAt(i)) =>
                  resp.labels[1] = i - 1

\* the query vector is stored once, at the second of three positions, and
\* that position is returned first
C16_Witness ==
    /\ Answered
    /\ Len(faiss_index.vecs) = 3
    /\ Holding(resp.qvec) = {2}
    /\ resp.labels[1] = 1
    /\ \A j \in {1, 3} : ScoreAt(j) < ScoreAt(2)

\* the answer of the response is the text the generator produced
Generated == resp.gen = "returned" /\ resp.gen_text # <<>> /\ resp.answer = resp.gen_text

\* C21, as claimed: in every chat response used_openai is true exactly when
\* the answer is the generator's text; when the answer is the fallback (also
\* after a generator call that returned empty text) used_openai is false and
\* the note does not say that no key is present while a key is configured.
C21_UsedOpenAIMeansGenerated ==
    Answered =>
        /\ resp.used_openai <=> Generated
        /\ ~Generated =>
              /\ resp.answer = ExpectedFallback(resp.retrieved)
              /\ resp.used_openai = FALSE
              /\ (resp.gen # "none" => resp.note # NOTE_NO_KEY)

(***************************************************************************)
(* Properties of concurrent requests (ConcSpec)                            *)
(***************************************************************************)
\* the generator outcome a chat response records
GenOf(response) ==
    IF response.gen = "raised" THEN [raises |-> TRUE, content |-> <<>>]
    ELSE [raises |-> FALSE, content |-> response.gen_text]

\* the response of the same request served alone on the loaded bundle
Alone(q) ==
    IF q.response.kind = "sources"
    THEN [kind |-> "sources", manifest |-> MANIFEST, num_chunks |-> Len(INDEX_META.entries)]
    ELSE ChatResponse(q.raw, q.top_k, GenOf(q.response), q.tie)

\* C19: no step of a chat or sources request changes the loaded index, the
\* loaded metadata or anything else the service loaded, and whatever the
\* interleaving, a finished request holds the response the same request gets
\* when it is served alone on the same bundle with the same collaborator
\* outputs.
C19_RequestsIndependent ==
    /\ [](\A r \in Slots : reqs[r].pc = "done" => reqs[r].response = Alone(reqs[r]))
    /\ [][UNCHANGED <<svcVars, diskVars>>]_vars

\* two chat requests have finished side by side, one with passages and a
\* generated answer, the other rejected
C19_Witness ==
    /\ reqs[1].pc = "done" /\ reqs[2].pc = "done"
    /\ reqs[1].response.kind = "chat" /\ reqs[1].response.status = 200
    /\ Len(reqs[1].response.retrieved) = 3
    /\ reqs[1].response.used_openai
    /\ reqs[2].response.kind = "chat" /\ reqs[2].response.status = 400

(***************************************************************************)
(* Properties of the chunker (ChunkSpec)                                   *)
(***************************************************************************)
\* the number of whitespace-delimited tokens of a text
TokenCount(s) == Cardinality({i \in 1..Len(s) : s[i] # SP /\ (i = 1 \/ s[i-1] = SP)})

\* C10: for a text of at most chunk_words tokens, chunk_text returns the
\* one-element list holding the text itself, whitespace and all.
C10_ShortTextUnchanged ==
    (cpc = "returned" /\ TokenCount(ctext) <= cwords) => cresult = <<ctext>>

\* a two-token text with a double space came back unchanged
C10_Witness ==
    /\ cpc = "returned"
    /\ ctext = <<"a", SP, SP, "b">>
    /\ cwords = 2
    /\ cresult = <<ctext>>

(***************************************************************************)
(* Properties of chunk_text run statement by statement (ChunkRunSpec)      *)
(***************************************************************************)
\* the smallest integer not below a / b, for b > 0
CeilDiv(a, b) == (a + b - 1) \div b

\* the call ran on a text of more than chunk_words tokens with 0 <= overlap < size
LongCall == TokenCount(ctext) > cwords /\ coverlap < cwords

\* lst[n:] for n >= 0
DropFirst(lst, n) == SubSeq(lst, Min(n, Len(lst)) + 1, Len(lst))

\* the first chunk's tokens, then each later chunk's tokens without its first
\* overlap tokens, in order
RECURSIVE Reassemble(_, _, _)
Reassemble(chunks, overlap, k) ==
    IF k = 0 THEN <<>>
    ELSE Reassemble(chunks, overlap, k - 1)
         \o (IF k = 1 THEN Split(chunks[1]) ELSE DropFirst(Split(chunks[k]), overlap))

\* C11, as claimed: for a text of N > size tokens and 0 <= overlap < size,
\* chunk_text returns exactly ceil((N - size) / (size - overlap)) + 1 chunks.
C11_ChunkCount ==
    (cpc = "returned" /\ LongCall) =>
        Len(cresult) = CeilDiv(TokenCount(ctext) - cwords, cwords - coverlap) + 1

\* C12: for a text of more than size tokens and 0 <= overlap < size, the
\* first chunk's tokens followed by each later chunk's tokens without its
\* first overlap tokens are exactly the tokens of the text, in order.
C12_ChunksReassemble ==
    (cpc = "returned" /\ LongCall) =>
        Reassemble(cresult, coverlap, Len(cresult)) = Split(ctext)

\* five distinct tokens in windows of three overlapping by one
C12_Witness ==
    /\ cpc = "returned"
    /\ ctext = TokensText(5)
    /\ cwords = 3
    /\ coverlap = 1
    /\ Len(cresult) = 3
    /\ Reassemble(cresult, coverlap, 3) = SubSeq(TokenPool, 1, 5)

\* C13, as claimed: a call with overlap >= chunk size on a text longer than
\* the chunk size ends in an input-validation error: it never enters the
\* window loop.
C13_OverlapRejected ==
    (coverlap >= cwords /\ TokenCount(ctext) > cwords) => cpc \in {"ready", "config_error"}

\* C20, as claimed: for every text and 0 <= overlap < size the call returns
\* (it terminates) with at least one chunk, and for a text of more than size
\* tokens every chunk has between 1 and size tokens and only the last chunk
\* has fewer than size.
C20_TerminatesWithBoundedChunks ==
    /\ [](  (cpc = "returned" /\ coverlap < cwords) =>
              /\ Len(cresult) >= 1
              /\ LongCall =>
                    \A k \in 1..Len(cresult) :
                        /\ TokenCount(cresult[k]) >= 1
                        /\ TokenCount(cresult[k]) <= cwords
                        /\ k < Len(cresult) => TokenCount(cresult[k]) = cwords )
    /\ ((cpc = "ready" /\ coverlap < cwords) ~> (cpc = "returned"))

====
